---------------------------- MODULE Spec2Model ----------------------------
(***************************************************************************)
(* Model of the Parade Weather backend (parade-weather/backend/app):       *)
(*   utils/fuse.py      fuse_probabilities, combine_sources                *)
(*   utils/indices.py   compute_heat_index, compute_wind_chill,            *)
(*                      compute_dew_point                                  *)
(*   services/climatology.py  get_percentiles                              *)
(*   services/imerg.py  get_imerg_daily, estimate_pop_from_daily           *)
(*   services/power.py  get_power_daily, fetch_power_api                   *)
(*   main.py            query                                              *)
(*                                                                         *)
(* Numbers.  The program computes in IEEE doubles; the model computes in   *)
(* integers.  Quantities the program keeps to a fixed number of decimals   *)
(* are integers in that unit (temperatures, wind and precipitation in      *)
(* tenths, probabilities in hundredths, "cents").  Intermediate reals are  *)
(* fixed-point numbers with six decimals ("micro" units, ONE = 10^6).      *)
(***************************************************************************)
EXTENDS Integers, Sequences, FiniteSets, TLC

VARIABLES
  \* POST /query (main.py): the request, the locals of the handler, the response
  qpc, inq, power, pct, probs, response,
  \* one call of fuse_probabilities
  fpc, f_probs, f_lead, f_fused,
  \* two calls of fuse_probabilities on one raw map, at two lead times
  mpc, m_probs, m_h1, m_h2, m_f1, m_f2,
  \* one call of compute_wind_chill
  wpc, w_t, w_wind, w_out,
  \* one call of combine_sources
  cpc, c_sources, c_weights, c_result,
  \* one call of get_imerg_daily: the environment's token, the providers
  \* awaited so far, what each returned, and the result
  ipc, token, consulted, imerg, power_api, i_power, i_result

queryVars == <<qpc, inq, power, pct, probs, response>>
fuseVars == <<fpc, f_probs, f_lead, f_fused>>
monoVars == <<mpc, m_probs, m_h1, m_h2, m_f1, m_f2>>
chillVars == <<wpc, w_t, w_wind, w_out>>
combineVars == <<cpc, c_sources, c_weights, c_result>>
imergVars == <<ipc, token, consulted, imerg, power_api, i_power, i_result>>
vars == <<queryVars, fuseVars, monoVars, chillVars, combineVars, imergVars>>

(***************************************************************************)
(* Bounds of the model.                                                    *)
(***************************************************************************)
MaxLead == 250
MaxTemp == 200
MaxWind == 60
MaxSources == 2
MaxWeight == 2

(***************************************************************************)
(* Small helpers.                                                          *)
(***************************************************************************)
Max(a, b) == IF a >= b THEN a ELSE b
Min(a, b) == IF a <= b THEN a ELSE b
Abs(a) == IF a < 0 THEN -a ELSE a

\* The five categories, in the insertion order of the probs dict.
Categories == <<"very_hot", "very_cold", "very_windy", "very_wet", "very_uncomfortable">>
CategorySet == {Categories[i] : i \in 1..Len(Categories)}
NoMap == [k \in {} |-> 0]

(***************************************************************************)
(* Fixed-point arithmetic with six decimals.  Every operator below works   *)
(* on integers that stand for value * 10^6 and stays within 32 bits; the   *)
(* results differ from the program's doubles by less than 10^-5 (less than *)
(* 3 * 10^-3 for the heat index, whose coefficients amplify the error).    *)
(***************************************************************************)
ONE == 10^6

\* a * b, both in micro units.
Mul6(a, b) ==
  LET ah == a \div 1000
      al == a % 1000
      bh == b \div 1000
      bl == b % 1000
  IN  ah * bh + (ah * bl + al * bh) \div 1000 + (al * bl) \div ONE

RECURSIVE DivDigits(_, _, _, _)
DivDigits(q, r, d, k) ==
  IF k = 0 THEN q
  ELSE DivDigits(q * 10 + (r * 10) \div d, (r * 10) % d, d, k - 1)

\* n / d in micro units, for integers n and d > 0 (or both in one unit).
Div6(n, d) == DivDigits(n \div d, n % d, d, 6)

\* round(x, 1): micro units to tenths, to the nearest.
Round1(x) == (x + 50000) \div 100000

RECURSIVE Pow2(_)
Pow2(k) == IF k = 0 THEN 1 ELSE 2 * Pow2(k - 1)

\* The largest k (negative when n < d) with d * 2^k <= n, for n, d > 0.
RECURSIVE Log2Up(_, _, _)
Log2Up(n, d, k) == IF d * Pow2(k + 1) <= n THEN Log2Up(n, d, k + 1) ELSE k
RECURSIVE Log2Down(_, _, _)
Log2Down(n, d, k) == IF n * Pow2(-k) < d THEN Log2Down(n, d, k - 1) ELSE k
Log2Floor(n, d) == IF n >= d THEN Log2Up(n, d, 0) ELSE Log2Down(n, d, 0)

RECURSIVE AtanhTail(_, _)
AtanhTail(w, c) ==
  IF c >= 13 THEN ONE \div 13 ELSE ONE \div c + Mul6(w, AtanhTail(w, c + 2))

\* math.log(n / d): n/d = m * 2^k with 1 <= m < 2, and
\* ln m = 2 * atanh((m - 1)/(m + 1)); ln 2 = 0.693147.
LnRatio(n, d) ==
  LET k == Log2Floor(n, d)
      a == IF k >= 0 THEN n ELSE n * Pow2(-k)
      b == IF k >= 0 THEN d * Pow2(k) ELSE d
      z == Div6(a - b, a + b)
  IN  k * 693147 + 2 * Mul6(z, AtanhTail(Mul6(z, z), 1))

RECURSIVE ExpTail(_, _)
ExpTail(y, n) ==
  IF n > 12 THEN ONE ELSE ONE + Mul6(y, ExpTail(y, n + 1)) \div n

\* math.exp(y) for 0 <= y < 1 (Taylor series).
Exp6(y) == ExpTail(y, 1)

RECURSIVE SinTail(_, _)
SinTail(w, n) ==
  IF n > 12 THEN ONE ELSE ONE - Mul6(w, SinTail(w, n + 2)) \div (n * (n + 1))

\* math.sin(r) for 0 <= r <= pi/2 (Taylor series).
SinQ(r) == Mul6(r, SinTail(Mul6(r, r), 2))

\* math.sin(2*pi*n/m) for integers n and m > 0; pi = 3.141593.
SinFrac(n, m) ==
  LET t == n % m
  IN  IF 4 * t <= m THEN SinQ(Mul6(3141593, Div6(2 * t, m)))
      ELSE IF 4 * t <= 2 * m THEN SinQ(Mul6(3141593, Div6(m - 2 * t, m)))
      ELSE IF 4 * t <= 3 * m THEN -SinQ(Mul6(3141593, Div6(2 * t - m, m)))
      ELSE -SinQ(Mul6(3141593, Div6(2 * (m - t), m)))

\* math.cos(2*pi*n/m).
CosFrac(n, m) == SinFrac(4 * n + m, 4 * m)

(***************************************************************************)
(* utils/indices.py.  t_c and wind_ms are in tenths, rh in whole percent   *)
(* (the providers round them so); the results are in micro degrees.        *)
(***************************************************************************)
\* t_f/100 and rh/100 in micro units; the polynomial is evaluated in
\* 10^-5 degrees Fahrenheit (its coefficients times 10^5, rescaled for
\* t_f/100 and rh/100) and converted to micro degrees Celsius.
compute_heat_index(t_c, rh) ==
  LET tn == t_c * 1800 + 320000
      rn == rh * 10000
      tt == Mul6(tn, tn)
      rr == Mul6(rn, rn)
      hi_f == -4237900 + Mul6(20490152, tn) + Mul6(101433313, rn)
              - Mul6(224755410, Mul6(tn, rn)) - Mul6(6837830, tt)
              - Mul6(54817170, rr) + Mul6(122874000, Mul6(tt, rn))
              + Mul6(85282000, Mul6(tn, rr)) - Mul6(19900000, Mul6(tt, rr))
  IN  ((hi_f - 3200000) * 50) \div 9

\* v_kmh in hundredths of km/h is 36 * wind_ms; v_kmh ** 0.16 is
\* exp(0.16 * ln v_kmh).
WindChillFormula(t_c, wind_ms) ==
  LET x == Exp6(Mul6(160000, LnRatio(36 * wind_ms, 100)))
  IN  13120000 + 62150 * t_c - Mul6(11370000, x) + Mul6(39650 * t_c, x)

\* `and` in place of `or` in the guard.
compute_wind_chill_and(t_c, wind_ms) ==
  IF 36 * wind_ms < 480 /\ t_c > 100
  THEN t_c * 100000
  ELSE WindChillFormula(t_c, wind_ms)

compute_wind_chill(t_c, wind_ms) ==
  IF 36 * wind_ms < 480 \/ t_c > 100
  THEN t_c * 100000
  ELSE WindChillFormula(t_c, wind_ms)

\* Magnus: a = 17.62, b = 243.12; rh >= 1 in the model, so max(rh, 1e-6)
\* is rh.
compute_dew_point(t_c, rh) ==
  LET gamma == Div6(1762 * t_c, 243120 + 100 * t_c) + LnRatio(rh, 100)
  IN  Div6(Mul6(243120000, gamma), 17620000 - gamma)

(***************************************************************************)
(* services/climatology.py: get_percentiles.  lat and lon are in tenths of *)
(* a degree; each band is <<p10, p50, p90>> in tenths.                     *)
(***************************************************************************)
Band(p10, p50, p90) == [p10 |-> Round1(p10), p50 |-> Round1(p50), p90 |-> Round1(p90)]

get_percentiles(lat, lon, doy) ==
  LET offset == IF lat < 0 THEN (200 + 182) % 365 ELSE 200
      s == SinFrac(doy - offset, 365)
      c == CosFrac(doy - offset, 365)
      mean_t == 18000000 - 12000 * Abs(lat)
      amp_t == Max(6000000, 12000000 - 8000 * Abs(lat))
      t50 == mean_t + Mul6(amp_t, s)
      hi_p50 == t50
      wc_p50 == t50 - 2000000
      mean_wind == 4000000 + 3000 * Abs(lat)
      amp_wind == 1000000 + 1000 * Abs(lat)
      wind_p50 == Max(500000, mean_wind + Mul6(Mul6(500000, c), amp_wind))
      wet_season == Max(0, s)
      coastiness == 300000 + Mul6(200000, 500000 + Mul6(500000, SinFrac(lon, 3600)))
      prcp_p50 == 1000000 + Mul6(Mul6(6000000, wet_season), coastiness)
      prcp_p90 == prcp_p50 + Mul6(6000000, 600000 + Mul6(400000, wet_season))
  IN  [HI   |-> Band(hi_p50 - 4000000, hi_p50, hi_p50 + 4000000),
       WC   |-> Band(wc_p50 - 6000000, wc_p50, wc_p50 + 6000000),
       WIND |-> Band(Max(500000, wind_p50 - 2000000), wind_p50, wind_p50 + 3000000),
       PRCP |-> Band(Max(0, prcp_p50 - 1500000), prcp_p50, prcp_p90)]

(***************************************************************************)
(* utils/fuse.py: fuse_probabilities.                                      *)
(* alpha is kept in 240ths (alpha = Alpha240(h)/240), a raw value v is 0   *)
(* or 1, and the smoothed value alpha*v + (1-alpha)*0.3*v + 0.05 is the    *)
(* exact fraction FuseNum(v, h)/2400.                                      *)
(***************************************************************************)
\* A slip of sign: alpha taken as lead_hours/240.
AlphaGrowingWithLead(lead_hours) == Max(72, Min(216, lead_hours))

Alpha240(lead_hours) == Max(72, Min(216, 240 - lead_hours))

\* The smoothing term + 0.05 left out.
FuseNumNoSmoothing(v, lead_hours) ==
  LET a == Alpha240(lead_hours)
  IN  Max(0, Min(2400, 10 * a * v + 3 * (240 - a) * v))

FuseNum(v, lead_hours) ==
  LET a == Alpha240(lead_hours)
  IN  Max(0, Min(2400, 10 * a * v + 3 * (240 - a) * v + 120))

\* round(x, 2) of the double the program holds.  The exact value is a half
\* cent only for v = 1 and lead_hours in {36, 60, 84, 108, 132, 156}; there
\* the double the expression of line 9 evaluates to decides: it lies above
\* the half for the first five and below it for 156 (0.595 is computed as
\* 0.59499999999999997), so round() goes up, and down for 156.
DoubleBelowHalf(v, lead_hours) == v = 1 /\ lead_hours = 156

\* int() in place of round(): the value cut to two decimals.
RoundCentsTruncating(n, v, lead_hours) == n \div 24

RoundCents(n, v, lead_hours) ==
  LET q == n \div 24
      r == n % 24
  IN  IF r < 12 THEN q
      ELSE IF r > 12 THEN q + 1
      ELSE IF DoubleBelowHalf(v, lead_hours) THEN q ELSE q + 1

FuseOne(v, lead_hours) == RoundCents(FuseNum(v, lead_hours), v, lead_hours)

fuse_probabilities(ps, lead_hours) ==
  [k \in DOMAIN ps |-> FuseOne(ps[k], lead_hours)]

(***************************************************************************)
(* utils/fuse.py: combine_sources.  A source maps some keys to a           *)
(* probability in cents; weights are integers; the combined values are in  *)
(* units of 0.0001, the four decimals the code rounds to.                  *)
(***************************************************************************)
RECURSIVE SumSeq(_)
SumSeq(s) == IF s = <<>> THEN 0 ELSE s[1] + SumSeq(Tail(s))

\* A missing key read as 1.0.
DictGetMissingAsOne(d, key, default) == IF key \in DOMAIN d THEN d[key] ELSE 100

\* d.get(key, default)
DictGet(d, key, default) == IF key \in DOMAIN d THEN d[key] ELSE default

\* round(n / d) for d # 0, to the nearest integer (half to even).
RoundDiv(n, d) ==
  LET nn == IF d < 0 THEN -n ELSE n
      dd == Abs(d)
      q == nn \div dd
      r == nn % dd
  IN  IF 2 * r < dd THEN q
      ELSE IF 2 * r > dd THEN q + 1
      ELSE IF q % 2 = 0 THEN q ELSE q + 1

\* The loop over zip(sources, normalized_weights) for one key: the sum of
\* source.get(key, 0.0) * w, with w = weights[i] / total_weight, kept as a
\* numerator over total_weight.  zip stops at the shorter list.
RECURSIVE WeightedSum(_, _, _, _)
WeightedSum(sources, weights, key, i) ==
  IF i > Min(Len(sources), Len(weights)) THEN 0
  ELSE DictGet(sources[i], key, 0) * weights[i]
         + WeightedSum(sources, weights, key, i + 1)

combine_sources(sources, weights) ==
  LET total_weight == SumSeq(weights)
      keys == UNION {DOMAIN sources[i] : i \in 1..Len(sources)}
  IN  IF total_weight = 0
      THEN [error |-> "ValueError", combined |-> NoMap]
      ELSE [error |-> "none",
            combined |-> [key \in keys |->
               RoundDiv(100 * WeightedSum(sources, weights, key, 1), total_weight)]]

(***************************************************************************)
(* services/imerg.py and services/power.py: get_imerg_daily and its        *)
(* providers.  Precipitation is in tenths of a millimetre.                 *)
(***************************************************************************)
estimate_pop_from_daily(precip_mm) ==
  IF precip_mm <= 0 THEN 10
  ELSE IF precip_mm <= 20 THEN 30
  ELSE IF precip_mm <= 50 THEN 50
  ELSE IF precip_mm <= 150 THEN 70
  ELSE 85

\* os.getenv("EARTHDATA_TOKEN"): unset (None), empty, or a token.
TokenSet == {"<unset>", "", "earthdata-token"}
Truthy(tok) == tok \notin {"<unset>", ""}

\* dict.setdefault(key, value)
SetDefault(d, key, value) ==
  IF key \in DOMAIN d THEN d
  ELSE [k \in DOMAIN d \cup {key} |-> IF k = key THEN value ELSE d[k]]

\* What `await fetch_imerg_v07_daily(...)` can do: raise, return None, or
\* return a dict with any of the keys precip_mm, pop_percent, source (the
\* placeholder of the repository returns None; the handler is written for
\* the real fetch its docstring describes).
ImergPrecipSet == {0, 72, 151}
ImergDicts ==
  {[k \in D |-> CASE k = "precip_mm" -> p
                  [] k = "pop_percent" -> 70
                  [] k = "source" -> "IMERG-V07"] :
     D \in SUBSET {"precip_mm", "pop_percent", "source"}, p \in ImergPrecipSet}
ImergOutcomes ==
  {[kind |-> "raise", d |-> NoMap], [kind |-> "none", d |-> NoMap]}
    \cup {[kind |-> "dict", d |-> d] : d \in ImergDicts}

\* `imerg and "precip_mm" in imerg`: None and the empty dict are falsy.
Usable(out) == out.kind = "dict" /\ DOMAIN out.d # {} /\ "precip_mm" \in DOMAIN out.d

\* The dict returned at line 53.
ImergResult(d) ==
  SetDefault(SetDefault(d, "pop_percent", estimate_pop_from_daily(d["precip_mm"])),
             "source", "IMERG-V07")

\* The try/except around the primary provider removed: its exception
\* leaves get_imerg_daily.
AfterImergNoExcept(out) ==
  IF out.kind = "raise" THEN "raised"
  ELSE IF Usable(out) THEN "done" ELSE "fallback"

\* Where get_imerg_daily goes after the primary provider (lines 48-56).
AfterImerg(out) == IF Usable(out) THEN "done" ELSE "fallback"

\* services/power.py: pop as both providers derive it from precip.
PowerPop(precip) == IF precip > 50 THEN 60 ELSE IF precip > 0 THEN 30 ELSE 10

\* The fields of the dict of both providers that get_imerg_daily can read
\* and that do not come from the temperature, humidity and wind draws.
PowerDict(precip) ==
  [precip |-> precip, pop |-> PowerPop(precip), lead_hours |-> 72, spread |-> 25]

\* get_power_daily, the stub: precip is 0.0 or round(uniform(0, 15), 1).
StubPrecipSet == {0, 20, 21, 150}
get_power_daily == {PowerDict(p) : p \in StubPrecipSet}

\* What `await fetch_power_api(...)` can do: raise (the HTTP request, the
\* status, the JSON), find the JSON without the expected keys (KeyError or
\* TypeError inside its try, line 57), or build the dict.
ApiPrecipSet == {-9990, 0, 5, 50, 51, 151, 300}
PowerApiOutcomes ==
  {[kind |-> "raise", d |-> NoMap], [kind |-> "malformed", d |-> NoMap]}
    \cup {[kind |-> "dict", d |-> PowerDict(p)] : p \in ApiPrecipSet}

\* Where get_imerg_daily goes after fetch_power_api (lines 59-62 of
\* imerg.py, line 59 of power.py).
AfterPowerApi(out) ==
  CASE out.kind = "raise" -> "stub_last_resort"
    [] out.kind = "malformed" -> "stub_in_power_api"
    [] out.kind = "dict" -> "finish"

NoOutcome == [kind |-> "not_called", d |-> NoMap]

Getenv ==
  /\ ipc = "getenv"
  /\ IF Truthy(token) THEN ipc' = "fetch_imerg" ELSE ipc' = "fallback"
  /\ UNCHANGED <<token, consulted, imerg, power_api, i_power, i_result>>
  /\ UNCHANGED <<queryVars, fuseVars, monoVars, chillVars, combineVars>>

FetchImerg ==
  /\ ipc = "fetch_imerg"
  /\ \E out \in ImergOutcomes :
       /\ imerg' = out
       /\ ipc' = AfterImerg(out)
       /\ i_result' = IF Usable(out) THEN ImergResult(out.d) ELSE i_result
  /\ consulted' = Append(consulted, "IMERG")
  /\ UNCHANGED <<token, power_api, i_power>>
  /\ UNCHANGED <<queryVars, fuseVars, monoVars, chillVars, combineVars>>

FetchPowerApi ==
  /\ ipc = "fallback"
  /\ \E out \in PowerApiOutcomes :
       /\ power_api' = out
       /\ ipc' = AfterPowerApi(out)
       /\ i_power' = IF out.kind = "dict" THEN out.d ELSE i_power
  /\ consulted' = Append(consulted, "POWER")
  /\ UNCHANGED <<token, imerg, i_result>>
  /\ UNCHANGED <<queryVars, fuseVars, monoVars, chillVars, combineVars>>

\* power.py line 59: fetch_power_api hands back the stub's dict.
StubInPowerApi ==
  /\ ipc = "stub_in_power_api"
  /\ i_power' \in get_power_daily
  /\ consulted' = Append(consulted, "STUB")
  /\ ipc' = "finish"
  /\ UNCHANGED <<token, imerg, power_api, i_result>>
  /\ UNCHANGED <<queryVars, fuseVars, monoVars, chillVars, combineVars>>

\* imerg.py line 62: the last resort.
StubLastResort ==
  /\ ipc = "stub_last_resort"
  /\ i_power' \in get_power_daily
  /\ consulted' = Append(consulted, "STUB")
  /\ ipc' = "finish"
  /\ UNCHANGED <<token, imerg, power_api, i_result>>
  /\ UNCHANGED <<queryVars, fuseVars, monoVars, chillVars, combineVars>>

\* imerg.py lines 64-66: precip has one decimal already, round(precip, 1)
\* leaves it.
Finish ==
  /\ ipc = "finish"
  /\ LET precip == DictGet(i_power, "precip", 0)
     IN  i_result' = [precip_mm |-> precip,
                      pop_percent |-> estimate_pop_from_daily(precip),
                      source |-> "POWER-fallback"]
  /\ ipc' = "done"
  /\ UNCHANGED <<token, consulted, imerg, power_api, i_power>>
  /\ UNCHANGED <<queryVars, fuseVars, monoVars, chillVars, combineVars>>

(***************************************************************************)
(* main.py: POST /query.                                                   *)
(***************************************************************************)
\* int(datetime.fromisoformat(date_iso).strftime("%j")); a date is
\* [year, month, day].
IsLeap(y) == (y % 4 = 0 /\ y % 100 # 0) \/ y % 400 = 0
DaysBefore == <<0, 31, 59, 90, 120, 151, 181, 212, 243, 273, 304, 334>>
DayOfYear(date) ==
  DaysBefore[date.month] + date.day
    + (IF date.month > 2 /\ IsLeap(date.year) THEN 1 ELSE 0)

\* The requests of the model: lat and lon in tenths of a degree.
LatSet == {-349, 0, 800}
LonSet == {-562, 900}
DateSet == {[year |-> 2025, month |-> 10, day |-> 5],
            [year |-> 2025, month |-> 10, day |-> 18],
            [year |-> 2024, month |-> 7, day |-> 18]}
Requests == [lat : LatSet, lon : LonSet, date_iso : DateSet]

\* What `await get_power_daily(...)` hands to the handler: a dict of tmax,
\* tmin, tavg, wind, precip (tenths), rh, pop (percent), lead_hours and
\* spread (hundredths).  The handler reads pop, lead_hours and spread with
\* .get() and a default, so it is written for any provider of that shape;
\* the stub of power.py sets lead_hours = 72, spread = 0.25 and derives pop
\* from precip, and its dicts are among the ones below.
TmaxSet == {240, 300}
TminSet == {-50, 90, 220}
RhSet == {45, 70}
WindSet == {10, 50, 120}
PrecipSet == {0, 50, 120}
PopSet == {10, 60}
LeadSet == {0, 36, 72, 156, 240}
SpreadSet == {25}
Observations ==
  {[tmax |-> tx, tmin |-> tn, tavg |-> (tx + tn) \div 2, rh |-> h, wind |-> w,
    precip |-> pr, pop |-> po, lead_hours |-> l, spread |-> sp] :
     tx \in TmaxSet, tn \in TminSet, h \in RhSet, w \in WindSet,
     pr \in PrecipSet, po \in PopSet, l \in LeadSet, sp \in SpreadSet}

\* float(<bool>)
Float01(b) == IF b THEN 1 ELSE 0

\* Step 4 of the handler: the raw probabilities (0 or 1) per category.
\* hi, wc, dp are in micro degrees, the bands, wind and precip in tenths.
\* min() in place of max(): the climatological p90 alone can raise very_hot.
VeryHotMin(hi, pc) == hi > Min(pc.HI.p90 * 100000, 32000000)

VeryHot(hi, pc) == hi > Max(pc.HI.p90 * 100000, 32000000)

VeryCold(wc, pc) == wc < Min(pc.WC.p10 * 100000, 5000000)

VeryWindy(pw, pc) == pw.wind > Max(pc.WIND.p90, 100)

\* The PoP threshold written as 10 instead of 50.
VeryWetPopTen(pw, pc) == pw.pop >= 10 \/ pw.precip >= Max(pc.PRCP.p90, 50)

VeryWet(pw, pc) == pw.pop >= 50 \/ pw.precip >= Max(pc.PRCP.p90, 50)

VeryUncomfortable(hi, wc, dp) == dp >= 20000000 \/ hi >= 32000000 \/ wc <= 0

Classify(pw, pc, hi, wc, dp) ==
  [k \in CategorySet |->
     CASE k = "very_hot" -> Float01(VeryHot(hi, pc))
       [] k = "very_cold" -> Float01(VeryCold(wc, pc))
       [] k = "very_windy" -> Float01(VeryWindy(pw, pc))
       [] k = "very_wet" -> Float01(VeryWet(pw, pc))
       [] k = "very_uncomfortable" -> Float01(VeryUncomfortable(hi, wc, dp))]

\* sorted(..., key=..., reverse=True) is stable: equal keys keep the order
\* of the input list.  s is sorted already; k goes after every element whose
\* key is >= its own.
\* An unstable sort: k goes before the elements with an equal key.
InsertDescBeforeEquals(s, k, key) ==
  LET n == Cardinality({i \in 1..Len(s) : key[s[i]] > key[k]})
  IN  SubSeq(s, 1, n) \o <<k>> \o SubSeq(s, n + 1, Len(s))

InsertDesc(s, k, key) ==
  LET n == Cardinality({i \in 1..Len(s) : key[s[i]] >= key[k]})
  IN  SubSeq(s, 1, n) \o <<k>> \o SubSeq(s, n + 1, Len(s))

RECURSIVE SortedDesc(_, _)
SortedDesc(s, key) ==
  IF s = <<>> THEN <<>>
  ELSE InsertDesc(SortedDesc(SubSeq(s, 1, Len(s) - 1), key), s[Len(s)], key)

\* The slice written [:1].
TopRisksOnlyFirst(fused) ==
  LET over == SelectSeq(Categories, LAMBDA k : fused[k] > 30)
      ranked == SortedDesc(over, fused)
  IN  SubSeq(ranked, 1, Min(1, Len(ranked)))

\* [k for k, v in fused.items() if v > 0.3], sorted, [:2]
TopRisks(fused) ==
  LET over == SelectSeq(Categories, LAMBDA k : fused[k] > 30)
      ranked == SortedDesc(over, fused)
  IN  SubSeq(ranked, 1, Min(2, Len(ranked)))

Confidence(spread) ==
  IF spread < 15 THEN "high" ELSE IF spread < 35 THEN "medium" ELSE "low"

RainSuggestion == "Mover a 09:00-11:00 reduce riesgo de lluvia"
WindSuggestion == "Usar zona protegida del viento o reubicar 1-2 km"
Suggestions(fused) ==
  (IF fused["very_wet"] > 30 THEN <<RainSuggestion>> ELSE <<>>)
    \o (IF fused["very_windy"] > 30 THEN <<WindSuggestion>> ELSE <<>>)

Drivers(pw, dp, fused) ==
  <<[label |-> "Tmax", value |-> pw.tmax, unit |-> "C", contribution |-> fused["very_hot"]],
    [label |-> "Viento", value |-> pw.wind, unit |-> "m/s", contribution |-> fused["very_windy"]],
    [label |-> "PoP", value |-> pw.pop, unit |-> "%", contribution |-> fused["very_wet"]],
    [label |-> "Dew Point", value |-> dp, unit |-> "C", contribution |-> fused["very_uncomfortable"]]>>

NoResponse == [status |-> "none"]

QueryInit ==
  /\ qpc = "request"
  /\ inq \in Requests
  /\ power = [status |-> "none"]
  /\ pct = [status |-> "none"]
  /\ probs = NoMap
  /\ response = NoResponse

\* The whole handler, for the request rq and one outcome pw of the data
\* provider: its locals power, pct, probs and the dict it returns.
query(rq, pw) ==
  LET hi == compute_heat_index(pw.tmax, pw.rh)
      wc == compute_wind_chill(pw.tmin, pw.wind)
      dp == compute_dew_point(pw.tavg, pw.rh)
      doy == DayOfYear(rq.date_iso)
      pc == get_percentiles(rq.lat, rq.lon, doy)
      raw == Classify(pw, pc, hi, wc, dp)
      fused == fuse_probabilities(raw, pw.lead_hours)
  IN  [power |-> pw,
       pct |-> pc,
       probs |-> raw,
       response |->
           [status |-> "ok",
            location |-> [lat |-> rq.lat, lon |-> rq.lon],
            when |-> [date_iso |-> rq.date_iso, lead_hours |-> pw.lead_hours,
                      tz |-> "America/Montevideo"],
            probabilities |-> fused,
            top_risks |-> TopRisks(fused),
            drivers |-> Drivers(pw, dp, fused),
            confidence |-> Confidence(pw.spread),
            suggestions |-> Suggestions(fused)]]

Query ==
  /\ qpc = "request"
  /\ \E pw \in Observations :
       \E r \in {query(inq, pw)} :
         /\ power' = r.power
         /\ pct' = r.pct
         /\ probs' = r.probs
         /\ response' = r.response
  /\ qpc' = "responded"
  /\ UNCHANGED <<inq, fuseVars, monoVars, chillVars, combineVars, imergVars>>

(***************************************************************************)
(* The state of each part of the model while another part runs.            *)
(***************************************************************************)
QueryIdle ==
  /\ qpc = "off"
  /\ inq = [status |-> "none"]
  /\ power = [status |-> "none"]
  /\ pct = [status |-> "none"]
  /\ probs = NoMap
  /\ response = NoResponse

FuseIdle ==
  /\ fpc = "off"
  /\ f_probs = NoMap
  /\ f_lead = 0
  /\ f_fused = NoMap

MonoIdle ==
  /\ mpc = "off"
  /\ m_probs = NoMap
  /\ m_h1 = 0
  /\ m_h2 = 0
  /\ m_f1 = NoMap
  /\ m_f2 = NoMap

ChillIdle ==
  /\ wpc = "off"
  /\ w_t = 0
  /\ w_wind = 0
  /\ w_out = 0

NoResult == [error |-> "not_called", combined |-> NoMap]
CombineIdle ==
  /\ cpc = "off"
  /\ c_sources = <<>>
  /\ c_weights = <<>>
  /\ c_result = NoResult

ImergIdle ==
  /\ ipc = "off"
  /\ token = "<unset>"
  /\ consulted = <<>>
  /\ imerg = NoOutcome
  /\ power_api = NoOutcome
  /\ i_power = NoMap
  /\ i_result = NoMap

(***************************************************************************)
(* FuseSpec: fuse_probabilities applied to every raw map and lead time.    *)
(***************************************************************************)
FuseInit ==
  /\ fpc = "call"
  /\ f_probs \in [CategorySet -> {0, 1}]
  /\ f_lead \in 0..MaxLead
  /\ f_fused = NoMap
  /\ QueryIdle /\ MonoIdle /\ ChillIdle /\ CombineIdle /\ ImergIdle

Fuse ==
  /\ fpc = "call"
  /\ f_fused' = fuse_probabilities(f_probs, f_lead)
  /\ fpc' = "done"
  /\ UNCHANGED <<f_probs, f_lead, queryVars, monoVars, chillVars, combineVars, imergVars>>

FuseNext == Fuse
FuseSpec == FuseInit /\ [][FuseNext]_vars

(***************************************************************************)
(* MonoSpec: fuse_probabilities applied to a raw map of ones at two lead   *)
(* times h1 <= h2.                                                         *)
(***************************************************************************)
MonoInit ==
  /\ mpc = "first"
  /\ m_probs = [k \in CategorySet |-> 1]
  /\ m_h1 \in 0..MaxLead
  /\ m_h2 \in m_h1..MaxLead
  /\ m_f1 = NoMap
  /\ m_f2 = NoMap
  /\ QueryIdle /\ FuseIdle /\ ChillIdle /\ CombineIdle /\ ImergIdle

FuseFirst ==
  /\ mpc = "first"
  /\ m_f1' = fuse_probabilities(m_probs, m_h1)
  /\ mpc' = "second"
  /\ UNCHANGED <<m_probs, m_h1, m_h2, m_f2, queryVars, fuseVars, chillVars, combineVars, imergVars>>

FuseSecond ==
  /\ mpc = "second"
  /\ m_f2' = fuse_probabilities(m_probs, m_h2)
  /\ mpc' = "done"
  /\ UNCHANGED <<m_probs, m_h1, m_h2, m_f1, queryVars, fuseVars, chillVars, combineVars, imergVars>>

MonoNext == FuseFirst \/ FuseSecond
MonoSpec == MonoInit /\ [][MonoNext]_vars

(***************************************************************************)
(* ChillSpec: compute_wind_chill applied to every temperature in           *)
(* -MaxTemp..MaxTemp and wind in 0..MaxWind (tenths).                      *)
(***************************************************************************)
ChillInit ==
  /\ wpc = "call"
  /\ w_t \in -MaxTemp..MaxTemp
  /\ w_wind \in 0..MaxWind
  /\ w_out = 0
  /\ QueryIdle /\ FuseIdle /\ MonoIdle /\ CombineIdle /\ ImergIdle

WindChill ==
  /\ wpc = "call"
  /\ w_out' = compute_wind_chill(w_t, w_wind)
  /\ wpc' = "done"
  /\ UNCHANGED <<w_t, w_wind, queryVars, fuseVars, monoVars, combineVars, imergVars>>

ChillNext == WindChill
ChillSpec == ChillInit /\ [][ChillNext]_vars

(***************************************************************************)
(* CombineSpec: combine_sources applied to every list of up to MaxSources  *)
(* sources and every list of up to MaxSources weights in -1..MaxWeight.    *)
(***************************************************************************)
CombineKeys == {"very_hot", "very_wet"}
SourceSet == UNION {[D -> {50, 100}] : D \in SUBSET CombineKeys}
SeqsUpTo(S, n) == UNION {[1..m -> S] : m \in 0..n}

CombineInit ==
  /\ cpc = "call"
  /\ c_sources \in SeqsUpTo(SourceSet, MaxSources)
  /\ c_weights \in SeqsUpTo(-1..MaxWeight, MaxSources)
  /\ c_result = NoResult
  /\ QueryIdle /\ FuseIdle /\ MonoIdle /\ ChillIdle /\ ImergIdle

Combine ==
  /\ cpc = "call"
  /\ c_result' = combine_sources(c_sources, c_weights)
  /\ cpc' = "done"
  /\ UNCHANGED <<c_sources, c_weights, queryVars, fuseVars, monoVars, chillVars, imergVars>>

CombineNext == Combine
CombineSpec == CombineInit /\ [][CombineNext]_vars

(***************************************************************************)
(* ImergSpec: one call of get_imerg_daily, one step per awaited provider.  *)
(***************************************************************************)
ImergInit ==
  /\ ipc = "getenv"
  /\ token \in TokenSet
  /\ consulted = <<>>
  /\ imerg = NoOutcome
  /\ power_api = NoOutcome
  /\ i_power = NoMap
  /\ i_result = NoMap
  /\ QueryIdle /\ FuseIdle /\ MonoIdle /\ ChillIdle /\ CombineIdle

ImergNext ==
  \/ Getenv
  \/ FetchImerg
  \/ FetchPowerApi
  \/ StubInPowerApi
  \/ StubLastResort
  \/ Finish
ImergSpec == ImergInit /\ [][ImergNext]_vars

(***************************************************************************)
(* Spec: one POST /query per request.                                      *)
(***************************************************************************)
Init == QueryInit /\ FuseIdle /\ MonoIdle /\ ChillIdle /\ CombineIdle /\ ImergIdle
Next == Query
Spec == Init /\ [][Next]_vars

(***************************************************************************)
(* Properties.                                                             *)
(***************************************************************************)
\* The position of category k in the canonical order.
PosOf(k) == CHOOSE i \in 1..Len(Categories) : Categories[i] = k
Range(s) == {s[i] : i \in 1..Len(s)}

\* C1: for every raw map with values in {0.0, 1.0} and every lead time
\* >= 0, the fused map has exactly the five categories and every value lies
\* in [0.05, 1.0].
C1_FusedMapInRange ==
  fpc = "done" =>
    /\ DOMAIN f_fused = {"very_hot", "very_cold", "very_windy", "very_wet",
                         "very_uncomfortable"}
    /\ \A k \in DOMAIN f_fused : f_fused[k] >= 5 /\ f_fused[k] <= 100

\* A call with raw zeros and ones, at a lead time past the 0.3 clamp of
\* alpha: the zeros sit on the floor.
C1_Witness ==
  /\ fpc = "done"
  /\ f_lead > 168
  /\ f_probs["very_wet"] = 0 /\ f_fused["very_wet"] = 5
  /\ f_probs["very_hot"] = 1 /\ f_fused["very_hot"] = 56

\* C2: top_risks holds only categories whose fused probability is > 0.3,
\* at most two of them, in descending order of fused probability, equal
\* probabilities in canonical order; a category left out is ranked after
\* every one kept (lower probability, or equal and later in the canonical
\* order), and nothing is left out while fewer than two are kept.
C2_TopRisksRanked ==
  qpc = "responded" =>
    LET t == response.top_risks
        f == response.probabilities
    IN  /\ Len(t) <= 2
        /\ \A i \in 1..Len(t) : t[i] \in CategorySet /\ f[t[i]] > 30
        /\ \A i, j \in 1..Len(t) :
             i < j => \/ f[t[i]] > f[t[j]]
                      \/ f[t[i]] = f[t[j]] /\ PosOf(t[i]) < PosOf(t[j])
        /\ \A k \in CategorySet \ Range(t) :
             f[k] > 30 =>
               /\ Len(t) = 2
               /\ \A i \in 1..Len(t) :
                    \/ f[t[i]] > f[k]
                    \/ f[t[i]] = f[k] /\ PosOf(t[i]) < PosOf(k)

\* Four categories tie above 0.3 and the truncation keeps the first two of
\* the canonical order.
C2_Witness ==
  /\ qpc = "responded"
  /\ Cardinality({k \in CategorySet : response.probabilities[k] > 30}) = 4
  /\ response.probabilities["very_hot"] < 30
  /\ response.top_risks = <<"very_cold", "very_windy">>

\* The sources that are paired with a weight and hold the key.
Holding(key) ==
  {i \in 1..Min(Len(c_sources), Len(c_weights)) : key \in DOMAIN c_sources[i]}

\* The weighted sum of the key over the sources of I, times the weight sum.
RECURSIVE SumHolding(_, _)
SumHolding(I, key) ==
  IF I = {} THEN 0
  ELSE LET i == CHOOSE j \in I : TRUE
       IN  c_sources[i][key] * c_weights[i] + SumHolding(I \ {i}, key)

\* C3: combine_sources fails with the invalid-weight error exactly when the
\* weights sum to zero (the empty lists and cancelling weights included) and
\* returns nothing then; with a non-zero sum it does not fail, it returns
\* every key of every source, and the value of a key is the weighted mean,
\* rounded to four decimals, of the sources that hold it: a source without
\* the key adds 0.0.
C3_ZeroWeightSumFails ==
  cpc = "done" =>
    LET total == SumSeq(c_weights)
        keys == UNION {DOMAIN c_sources[i] : i \in 1..Len(c_sources)}
    IN  /\ (total = 0) <=> (c_result.error = "ValueError")
        /\ total = 0 => c_result.combined = NoMap
        /\ total # 0 =>
             /\ c_result.error = "none"
             /\ DOMAIN c_result.combined = keys
             /\ \A key \in keys :
                  2 * Abs(c_result.combined[key] * total
                            - 100 * SumHolding(Holding(key), key)) <= Abs(total)

\* A combination where a source with a non-zero weight lacks a key that
\* another weighted source holds.
C3_Witness ==
  /\ cpc = "done"
  /\ c_result.error = "none"
  /\ \E key \in CombineKeys :
       /\ \E i \in 1..Min(Len(c_sources), Len(c_weights)) :
            key \notin DOMAIN c_sources[i] /\ c_weights[i] # 0
       /\ key \in DOMAIN c_result.combined
       /\ c_result.combined[key] > 0

\* C4: for a raw value of 1.0 and lead times h1 <= h2, the fused value at
\* h1 is >= the fused value at h2.
C4_MonotonicInAlpha ==
  mpc = "done" /\ m_h1 <= m_h2 =>
    \A k \in CategorySet : m_probs[k] = 1 => m_f1[k] >= m_f2[k]

\* Two lead times between the clamps of alpha, the later one the lead time
\* whose exact value is a half cent, with a strictly smaller fused value.
C4_Witness ==
  /\ mpc = "done"
  /\ m_h1 = 155 /\ m_h2 = 156
  /\ m_f1["very_hot"] = 60 /\ m_f2["very_hot"] = 59

\* alpha = clamp(1 - lead_hours/240, 0.3, 0.9), in 240ths, written out.
ClampedAlpha240(h) ==
  IF 240 - h < 72 THEN 72 ELSE IF 240 - h > 216 THEN 216 ELSE 240 - h

\* C5: for every lead time >= 0 and raw value in {0.0, 1.0},
\* alpha = clamp(1 - lead_hours/240, 0.3, 0.9) and the fused value is
\* clamp(alpha*raw + (1-alpha)*0.3*raw + 0.05, 0, 1) rounded to 2 decimals
\* (a value with two decimals within half a cent of it); for lead_hours =
\* 72, alpha is 0.7 and a raw 1.0 fuses to 0.84.
C5_FusedIsRoundedFormula ==
  fpc = "done" =>
    /\ Alpha240(f_lead) = ClampedAlpha240(f_lead)
    /\ \A k \in CategorySet :
         LET a == ClampedAlpha240(f_lead)
             v == f_probs[k]
             x == 10 * a * v + 3 * (240 - a) * v + 120
             c == IF x < 0 THEN 0 ELSE IF x > 2400 THEN 2400 ELSE x
         IN  /\ 24 * f_fused[k] - c <= 12
             /\ c - 24 * f_fused[k] <= 12
    /\ f_lead = 72 =>
         /\ Alpha240(f_lead) * 10 = 7 * 240
         /\ \A k \in CategorySet : f_probs[k] = 1 => f_fused[k] = 84

\* The scenario of the specification: lead_hours = 72, very_hot raw 1.0.
C5_Witness ==
  /\ fpc = "done"
  /\ f_lead = 72
  /\ f_probs["very_hot"] = 1 /\ f_fused["very_hot"] = 84
  /\ f_probs["very_cold"] = 0 /\ f_fused["very_cold"] = 5

\* C6: with precipitation = 0 mm and probability_of_precipitation = 10 %,
\* whatever the climatology and the lead time, raw very_wet is 0.0 and
\* fused very_wet is exactly 0.05.
C6_DryDayOnTheFloor ==
  qpc = "responded" /\ power.precip = 0 /\ power.pop = 10 =>
    /\ probs["very_wet"] = 0
    /\ response.probabilities["very_wet"] = 5

\* A dry day where the climatological p90 is below the 5 mm fallback.
C6_Witness ==
  /\ qpc = "responded"
  /\ power.precip = 0 /\ power.pop = 10
  /\ pct.PRCP.p90 < 50
  /\ power.lead_hours = 156
  /\ response.probabilities["very_wet"] = 5

\* C7: compute_wind_chill(t, v) returns t unchanged whenever v*3.6 < 4.8 or
\* t > 10; a result other than t (the formula was applied) occurs only when
\* v*3.6 >= 4.8 and t <= 10.
C7_WindChillUnchanged ==
  wpc = "done" =>
    /\ (36 * w_wind < 480 \/ w_t > 100) => w_out = w_t * 100000
    /\ w_out # w_t * 100000 => (36 * w_wind >= 480 /\ w_t <= 100)

\* A cold temperature in calm air: only the wind clause of the guard holds.
C7_Witness ==
  /\ wpc = "done"
  /\ w_t = -50 /\ w_wind = 13
  /\ w_out = -5000000

\* The orders in which a call can have consulted its providers.
ProviderOrders ==
  {<<>>, <<"IMERG">>, <<"POWER">>, <<"IMERG", "POWER">>,
   <<"POWER", "STUB">>, <<"IMERG", "POWER", "STUB">>}

\* C8: get_imerg_daily consults IMERG first and only with a token, then the
\* POWER API, then the stub; the POWER API only when IMERG was skipped,
\* failed or gave nothing usable, the stub only when the POWER API failed;
\* no failure of a provider leaves the call, which goes on until it returns
\* a result with precip_mm, pop_percent and source.
C8_ProvidersInOrderNeverFail ==
  /\ ipc # "raised"
  /\ consulted \in ProviderOrders
  /\ "IMERG" \in Range(consulted) => Truthy(token)
  /\ "POWER" \in Range(consulted) =>
       \/ ~Truthy(token)
       \/ "IMERG" \in Range(consulted) /\ ~Usable(imerg)
  /\ "STUB" \in Range(consulted) => power_api.kind \in {"raise", "malformed"}
  /\ ipc = "done" =>
       {"precip_mm", "pop_percent", "source"} \subseteq DOMAIN i_result
  /\ ipc # "done" => ENABLED ImergNext

\* Both providers raised and the call returned the stub's observation.
C8_Witness ==
  /\ ipc = "done"
  /\ consulted = <<"IMERG", "POWER", "STUB">>
  /\ imerg.kind = "raise"
  /\ power_api.kind = "raise"
  /\ i_result["source"] = "POWER-fallback"

\* C9: a category's fused probability exceeds 0.3 iff its raw probability
\* is 1.0, all categories with raw 1.0 get the same fused value, top_risks
\* is the first (up to) two categories of the canonical order with raw 1.0,
\* and the rain (wind) suggestion is emitted iff raw very_wet (very_windy)
\* is 1.0.
C9_RawDecidesRanking ==
  qpc = "responded" =>
    LET f == response.probabilities
        raised == SelectSeq(Categories, LAMBDA k : probs[k] = 1)
    IN  /\ \A k \in CategorySet : f[k] > 30 <=> probs[k] = 1
        /\ \A k1, k2 \in CategorySet :
             probs[k1] = 1 /\ probs[k2] = 1 => f[k1] = f[k2]
        /\ response.top_risks =
             IF Len(raised) <= 2 THEN raised ELSE <<raised[1], raised[2]>>
        /\ RainSuggestion \in Range(response.suggestions) <=> probs["very_wet"] = 1
        /\ WindSuggestion \in Range(response.suggestions) <=> probs["very_windy"] = 1

\* The longest lead time (alpha at its floor): three raised categories, two
\* of them kept, and the rain suggestion without the wind suggestion.
C9_Witness ==
  /\ qpc = "responded"
  /\ power.lead_hours = 240
  /\ probs = [k \in CategorySet |->
               IF k \in {"very_cold", "very_wet", "very_uncomfortable"} THEN 1 ELSE 0]
  /\ response.top_risks = <<"very_cold", "very_wet">>
  /\ response.suggestions = <<RainSuggestion>>

\* C10: whenever raw very_hot is 1.0, raw very_uncomfortable is 1.0 too,
\* and fused very_uncomfortable >= fused very_hot.
C10_HotImpliesUncomfortable ==
  qpc = "responded" /\ probs["very_hot"] = 1 =>
    /\ probs["very_uncomfortable"] = 1
    /\ response.probabilities["very_uncomfortable"] >= response.probabilities["very_hot"]

\* very_hot raised where the climatological p90 (34.0) is the threshold.
C10_Witness ==
  /\ qpc = "responded"
  /\ probs["very_hot"] = 1
  /\ pct.HI.p90 > 320
  /\ probs["very_uncomfortable"] = 1

\* The two implications C10 says do not hold: states where they fail are
\* reachable (TLC finds each of these invariants violated).
C10_NoConverse ==
  qpc = "responded" /\ probs["very_uncomfortable"] = 1 => probs["very_hot"] = 1
C10_NoColdAnalogue ==
  qpc = "responded" /\ probs["very_cold"] = 1 => probs["very_uncomfortable"] = 1

=============================================================================
